---- MODULE Spec2Model ----
(***************************************************************************)
(* A model of package unpack (github.com/gford1000-go/unpack): decoding and *)
(* encoding of JSON documents that hold a map of named objects.            *)
(*                                                                         *)
(* The orchestration is the latest revision of the package (the one with   *)
(* a context argument, the three envelope shapes, the ordering option and  *)
(* the pooled scratch maps); the coercion engine is mapToStruct and its    *)
(* helpers.  encoding/json is modelled by its documented behaviour on      *)
(* parse trees.                                                            *)
(***************************************************************************)
EXTENDS Integers, Sequences, FiniteSets, TLC

(***************************************************************************)
(* Strings.  A Go string is compared bytewise; Bytes gives the bytes of    *)
(* every string the model uses as a map key.                               *)
(***************************************************************************)
Bytes(s) ==
    CASE s = ""           -> <<>>
      [] s = "B"          -> <<66>>
      [] s = "a"          -> <<97>>
      [] s = "ab"         -> <<97, 98>>
      [] s = "d"          -> <<100>>
      [] s = "m"          -> <<109>>
      [] s = "p"          -> <<112>>
      [] s = "x"          -> <<120>>
      [] s = "Name"       -> <<78, 97, 109, 101>>
      [] s = "Note"       -> <<78, 111, 116, 101>>
      [] s = "Capital"    -> <<67, 97, 112, 105, 116, 97, 108>>
      [] s = "capital"    -> <<99, 97, 112, 105, 116, 97, 108>>
      [] s = "count"      -> <<99, 111, 117, 110, 116>>
      [] s = "population" -> <<112, 111, 112, 117, 108, 97, 116, 105, 111, 110>>
      [] s = "version"    -> <<118, 101, 114, 115, 105, 111, 110>>

RECURSIVE BytesLess(_, _)
BytesLess(x, y) ==
    IF x = <<>> THEN y # <<>>
    ELSE IF y = <<>> THEN FALSE
    ELSE IF Head(x) # Head(y) THEN Head(x) < Head(y)
    ELSE BytesLess(Tail(x), Tail(y))

\* Go's s < t on strings
StrLess(s, t) == BytesLess(Bytes(s), Bytes(t))

\* strings.EqualFold on the ASCII strings of the model
FoldBytes(x) == [i \in 1..Len(x) |-> IF x[i] >= 65 /\ x[i] <= 90 THEN x[i] + 32 ELSE x[i]]
EqualFold(s, t) == FoldBytes(Bytes(s)) = FoldBytes(Bytes(t))

RECURSIVE InsertSorted(_, _)
InsertSorted(s, k) ==
    IF s = <<>> THEN <<k>>
    ELSE IF StrLess(k, Head(s)) THEN <<k>> \o s
    ELSE <<Head(s)>> \o InsertSorted(Tail(s), k)

\* the keys of a set in ascending order: sort.Sort on a sort.StringSlice
RECURSIVE SortStrings(_)
SortStrings(S) ==
    IF S = {} THEN <<>>
    ELSE LET k == CHOOSE x \in S : TRUE
         IN  InsertSorted(SortStrings(S \ {k}), k)

\* slices.Reverse
Reverse(s) == [i \in 1..Len(s) |-> s[Len(s) + 1 - i]]

(***************************************************************************)
(* JSON documents.  A byte slice is modelled by what it parses to: Bad (no *)
(* JSON text at all) or a tree whose objects keep the order, and the       *)
(* duplicates, of their members in the text.  A number is w + h/2.         *)
(***************************************************************************)
JBad          == <<"bad">>
JNull         == <<"null">>
JNum(w, h)    == <<"num", w, h>>
JStr(s)       == <<"str", s>>
JBool(b)      == <<"bool", b>>
JArr(elems)   == <<"arr", elems>>
JObj(members) == <<"obj", members>>

(***************************************************************************)
(* Go types and values.  A type is a tagged tuple; a struct type is named  *)
(* and its fields are in StructFields.  A value is a tagged tuple too:     *)
(* Nil is the nil interface, pointer, map or slice.                        *)
(***************************************************************************)
TString      == <<"string">>
TInt         == <<"int">>
TFloat64     == <<"float64">>
TBool        == <<"bool">>
TAny         == <<"interface">>
TMap(K, V)   == <<"map", K, V>>
TSlice(E)    == <<"slice", E>>
TPtr(E)      == <<"ptr", E>>
TStruct(n)   == <<"struct", n>>
Kind(T)      == T[1]

Nil           == <<"nil">>
VString(s)    == <<"string", s>>
VInt(n)       == <<"int", n>>
VFloat(w, h)  == <<"float64", w, h>>
VBool(b)      == <<"bool", b>>
VMap(f)       == <<"map", f>>
VSlice(s)     == <<"slice", s>>
VPtr(v)       == <<"ptr", v>>
VStruct(f)    == <<"struct", f>>
EmptyMap      == VMap([k \in {} |-> Nil])

\* a struct field: its Go name, its json tag split at the commas (<<>>: no
\* tag), whether it is exported, and its type
Field(name, tag, exported, type) == [Name |-> name, tag |-> tag, exported |-> exported, type |-> type]

\* Item extends the tests' myCountryDetails (Name, Capital, Population) with
\* a tag that has options only, a reference to a scalar, an unexported field
\* and an ignored field; Meta is a metadata type with a field called Name, a
\* number and a reference to a number
StructFields(n) ==
    CASE n = "Item" ->
            << Field("Name", <<>>, TRUE, TString),
               Field("Capital", <<"capital">>, TRUE, TString),
               Field("Note", <<"", "omitempty">>, TRUE, TString),
               Field("Population", <<"population">>, TRUE, TMap(TString, TInt)),
               Field("Count", <<"count">>, TRUE, TPtr(TInt)),
               Field("secret", <<>>, FALSE, TString),
               Field("Skip", <<"-">>, TRUE, TString) >>
      [] n = "Meta" ->
            << Field("Name", <<>>, TRUE, TString),
               Field("Version", <<"version">>, TRUE, TInt),
               Field("Count", <<"count">>, TRUE, TPtr(TInt)) >>

FieldNames(n) == {StructFields(n)[i].Name : i \in 1..Len(StructFields(n))}
FieldOf(n, f) == StructFields(n)[CHOOSE i \in 1..Len(StructFields(n)) : StructFields(n)[i].Name = f]

\* reflect.Zero / new(T)
RECURSIVE Zero(_)
Zero(T) ==
    CASE Kind(T) = "string"    -> VString("")
      [] Kind(T) = "int"       -> VInt(0)
      [] Kind(T) = "float64"   -> VFloat(0, 0)
      [] Kind(T) = "bool"      -> VBool(FALSE)
      [] Kind(T) = "struct"    -> VStruct([f \in FieldNames(T[2]) |-> Zero(FieldOf(T[2], f).type)])
      [] OTHER                 -> Nil

(***************************************************************************)
(* encoding/json, decoding into untyped destinations.                      *)
(***************************************************************************)
\* the members of an object as a Go map: a later duplicate overwrites
RECURSIVE MembersToMap(_, _)
MembersToMap(members, f) ==
    IF members = <<>> THEN f
    ELSE LET k == Head(members)[1]
             v == Head(members)[2]
         IN  MembersToMap(Tail(members),
                 [x \in (DOMAIN f) \cup {k} |-> IF x = k THEN v ELSE f[x]])

\* the value json.Unmarshal stores in an interface{} for a tree
RECURSIVE ToAny(_)
ToAny(j) ==
    CASE j[1] = "null" -> Nil
      [] j[1] = "num"  -> VFloat(j[2], j[3])
      [] j[1] = "str"  -> VString(j[2])
      [] j[1] = "bool" -> VBool(j[2])
      [] j[1] = "arr"  -> VSlice([i \in 1..Len(j[2]) |-> ToAny(j[2][i])])
      [] j[1] = "obj"  ->
            LET m == MembersToMap(j[2], <<>>)
            IN  VMap([k \in DOMAIN m |-> ToAny(m[k])])

NoErr == <<>>
ErrSyntax == <<"json: syntax error">>
ErrUnmarshalType == <<"json: cannot unmarshal into Go value">>

\* json.Unmarshal reuses a map that is not nil and keeps its entries: the
\* map m after the members n were stored into it
MergeInto(m, n) ==
    VMap([k \in (DOMAIN m[2]) \cup (DOMAIN n[2]) |->
            IF k \in DOMAIN n[2] THEN n[2][k] ELSE m[2][k]])

\* json.Unmarshal(b, &m) for m a map[string]any that is not nil: null sets
\* the variable to nil
UnmarshalMap(b, m) ==
    CASE b[1] = "bad"  -> [err |-> ErrSyntax, m |-> m]
      [] b[1] = "null" -> [err |-> NoErr, m |-> Nil]
      [] b[1] = "obj"  -> [err |-> NoErr, m |-> MergeInto(m, ToAny(b))]
      [] OTHER         -> [err |-> ErrUnmarshalType, m |-> m]

\* json.Unmarshal(b, &mm) for mm a map[string]map[string]any that is not
\* nil: a member that is null stores a nil inner map; one that is no object
\* stores a nil inner map too, and the call returns a type error
UnmarshalMap2Map(b, mm) ==
    CASE b[1] = "bad"  -> [err |-> ErrSyntax, m |-> mm]
      [] b[1] = "null" -> [err |-> NoErr, m |-> Nil]
      [] b[1] = "obj"  ->
            LET m == MembersToMap(b[2], <<>>)
            IN  [err |-> IF \A i \in 1..Len(b[2]) : b[2][i][2][1] \in {"obj", "null"}
                         THEN NoErr ELSE ErrUnmarshalType,
                 m   |-> MergeInto(mm, VMap([k \in DOMAIN m |->
                                IF m[k][1] = "obj" THEN ToAny(m[k]) ELSE Nil]))]
      [] OTHER         -> [err |-> ErrUnmarshalType, m |-> mm]

(***************************************************************************)
(* The coercion engine: mapToStruct, setFieldValue, setMapValue and        *)
(* setSliceValue.  Each operator returns the error (NoErr: nil) and the    *)
(* value the destination holds afterwards.                                 *)
(***************************************************************************)
Ok(v)        == [err |-> NoErr, val |-> v]
Fail(e, v)   == [err |-> e, val |-> v]

\* reflect.TypeOf of a value that json.Unmarshal stored in an interface{}
TypeOf(v) ==
    CASE v[1] = "float64" -> TFloat64
      [] v[1] = "string"  -> TString
      [] v[1] = "bool"    -> TBool
      [] v[1] = "slice"   -> TSlice(TAny)
      [] v[1] = "map"     -> TMap(TString, TAny)

\* reflect.Type.ConvertibleTo, for the source types above
ConvertibleTo(S, T) ==
    \/ S = T
    \/ Kind(T) = "interface"
    \/ Kind(S) = "float64" /\ Kind(T) \in {"int", "float64"}

\* reflect.Value.Convert: a float64 is truncated toward zero into an int
Convert(v, T) ==
    IF v[1] = "float64" /\ Kind(T) = "int"
    THEN VInt(IF v[2] < 0 /\ v[3] = 1 THEN v[2] + 1 ELSE v[2])
    ELSE v

\* the name mapToStruct looks a field up by
JsonTag(fld) == IF fld.tag = <<>> \/ fld.tag = <<"">> THEN fld.Name ELSE fld.tag[1]

ErrField(name, e)  == <<"error setting field", name>> \o e
ErrIndex(i, e)     == <<"error converting slice element at index", ToString(i)>> \o e
ErrConvert         == <<"cannot convert">>
ErrMapKey          == <<"cannot convert map key">>
ErrMapValue        == <<"cannot convert map value">>

RECURSIVE mapToStruct(_, _, _)
RECURSIVE MapToStructFrom(_, _, _, _)
RECURSIVE FieldDone(_, _, _, _, _, _)
RECURSIVE setFieldValue(_, _, _)
RECURSIVE setMapValue(_, _)
RECURSIVE MapEntryValue(_, _)
RECURSIVE setSliceValue(_, _)
RECURSIVE SliceFrom(_, _, _, _)
RECURSIVE ElemDone(_, _, _, _, _)

FieldAt(n, i)  == StructFields(n)[i]
WithField(s, name, v) == VStruct([s[2] EXCEPT ![name] = v])

\* whether mapToStruct assigns field fld from the map m: the tag is not the
\* ignore marker, the map has the name and the field can be set
Assigned(m, fld) == JsonTag(fld) # "-" /\ JsonTag(fld) \in DOMAIN m /\ fld.exported

\* mapToStruct after setFieldValue returned r for field name
FieldDone(m, n, s, i, name, r) ==
    IF r.err # NoErr THEN Fail(ErrField(name, r.err), WithField(s, name, r.val))
    ELSE MapToStructFrom(m, n, WithField(s, name, r.val), i + 1)

\* the loop of mapToStruct from field i on; s is the struct so far
MapToStructFrom(m, n, s, i) ==
    IF i > Len(StructFields(n)) THEN Ok(s)
    ELSE IF Assigned(m, FieldAt(n, i))
    THEN FieldDone(m, n, s, i, FieldAt(n, i).Name,
             setFieldValue(FieldAt(n, i).type, s[2][FieldAt(n, i).Name], m[JsonTag(FieldAt(n, i))]))
    ELSE MapToStructFrom(m, n, s, i + 1)

\* mapToStruct(m, s) for s a pointer to the struct value s of type n; m is
\* the Go map (a function)
mapToStruct(m, n, s) == MapToStructFrom(m, n, s, 1)

\* a field is set only when the helper returned no error
Keep(r, cur)    == IF r.err # NoErr THEN Fail(r.err, cur) ELSE r
KeepPtr(r, cur) == IF r.err # NoErr THEN Fail(r.err, cur) ELSE Ok(VPtr(r.val))

setFieldValue(T, cur, value) ==
    IF value = Nil
    THEN (IF Kind(T) = "ptr" THEN Ok(Zero(T)) ELSE Ok(cur))
    ELSE IF TypeOf(value) = T THEN Ok(value)
    ELSE IF ConvertibleTo(TypeOf(value), T) THEN Ok(Convert(value, T))
    ELSE IF Kind(T) = "map" /\ value[1] = "map" THEN Keep(setMapValue(value, T), cur)
    ELSE IF Kind(T) = "slice" /\ value[1] = "slice" THEN Keep(setSliceValue(value, T), cur)
    ELSE IF Kind(T) = "struct" /\ value[1] = "map"
    THEN Keep(mapToStruct(value[2], T[2], Zero(T)), cur)
    ELSE IF Kind(T) = "ptr" /\ Kind(T[2]) = "struct" /\ value[1] = "map"
    THEN KeepPtr(mapToStruct(value[2], T[2][2], Zero(T[2])), cur)
    ELSE Fail(ErrConvert, cur)

\* the conversion of one map value in setMapValue
MapEntryValue(V, sv) ==
    IF sv = Nil THEN Ok(Zero(V))
    ELSE IF ConvertibleTo(TypeOf(sv), V) THEN Ok(Convert(sv, V))
    ELSE IF Kind(V) = "map" /\ sv[1] = "map" THEN setMapValue(sv, V)
    ELSE IF Kind(V) = "slice" /\ sv[1] = "slice" THEN setSliceValue(sv, V)
    ELSE IF Kind(V) = "struct" /\ sv[1] = "map" THEN mapToStruct(sv[2], V[2], Zero(V))
    ELSE Fail(ErrMapValue, Nil)

\* the map built from the entries' results res, or the error of an entry
\* that failed: Go ranges over the source in no specified order, so with
\* several failing entries the error is that of any of them
MapDone(res) ==
    IF \E k \in DOMAIN res : res[k].err # NoErr
    THEN Fail(res[CHOOSE k \in DOMAIN res : res[k].err # NoErr].err, Nil)
    ELSE Ok(VMap([k \in DOMAIN res |-> res[k].val]))

\* setMapValue builds a new map of type T from the map value
setMapValue(value, T) ==
    MapDone([k \in DOMAIN value[2] |->
                IF ~ConvertibleTo(TString, T[2]) THEN Fail(ErrMapKey, Nil)
                ELSE MapEntryValue(T[3], value[2][k])])

\* ElemDone going on past an element that failed, leaving it zero
ElemDone_Skip(value, E, s, i, r) ==
    SliceFrom(value, E, Append(s, IF r.err # NoErr THEN Zero(E) ELSE r.val), i + 1)

\* setSliceValue after setFieldValue returned r for the element at i
ElemDone(value, E, s, i, r) ==
    IF r.err # NoErr THEN Fail(ErrIndex(i - 1, r.err), Nil)
    ELSE SliceFrom(value, E, Append(s, r.val), i + 1)

\* the loop of setSliceValue from index i on; s is the new slice so far
SliceFrom(value, E, s, i) ==
    IF i > Len(value[2]) THEN Ok(VSlice(s))
    ELSE ElemDone(value, E, s, i, setFieldValue(E, Zero(E), value[2][i]))

setSliceValue(value, T) == SliceFrom(value, T[2], <<>>, 1)

(***************************************************************************)
(* encoding/json: json.Marshal, and json.Unmarshal into a typed value.     *)
(***************************************************************************)
\* json.Marshal of a value held in an interface{}: object keys are sorted
RECURSIVE MarshalAny(_)
MarshalAny(v) ==
    CASE v[1] = "nil"     -> JNull
      [] v[1] = "float64" -> JNum(v[2], v[3])
      [] v[1] = "string"  -> JStr(v[2])
      [] v[1] = "bool"    -> JBool(v[2])
      [] v[1] = "slice"   -> JArr([i \in 1..Len(v[2]) |-> MarshalAny(v[2][i])])
      [] v[1] = "map"     ->
            LET keys == SortStrings(DOMAIN v[2])
            IN  JObj([i \in 1..Len(keys) |-> <<keys[i], MarshalAny(v[2][keys[i]])>>])

\* the name encoding/json gives a field, and whether it handles the field
JsonName(fld)    == IF fld.tag = <<>> \/ fld.tag[1] = "" THEN fld.Name ELSE fld.tag[1]
JsonSkipped(fld) == ~fld.exported \/ fld.tag = <<"-">>
OmitEmpty(fld)   == \E i \in 2..Len(fld.tag) : fld.tag[i] = "omitempty"
IsEmptyValue(v) ==
    \/ v = Nil
    \/ v[1] = "string" /\ v[2] = ""
    \/ v[1] = "int" /\ v[2] = 0
    \/ v[1] = "float64" /\ v[2] = 0 /\ v[3] = 0
    \/ v[1] = "bool" /\ ~v[2]
    \/ v[1] = "map" /\ DOMAIN v[2] = {}
    \/ v[1] = "slice" /\ v[2] = <<>>

RECURSIVE MarshalTyped(_, _)
RECURSIVE MarshalFields(_, _, _)
\* the members of a struct's object, from field i on
MarshalFields(n, s, i) ==
    IF i > Len(StructFields(n)) THEN <<>>
    ELSE LET fld == StructFields(n)[i]
             v   == s[2][fld.Name]
         IN  IF JsonSkipped(fld) \/ (OmitEmpty(fld) /\ IsEmptyValue(v))
             THEN MarshalFields(n, s, i + 1)
             ELSE << <<JsonName(fld), MarshalTyped(v, fld.type)>> >> \o MarshalFields(n, s, i + 1)

\* json.Marshal of a value of static type T
MarshalTyped(v, T) ==
    CASE Kind(T) = "interface" -> MarshalAny(v)
      [] Kind(T) = "string"    -> JStr(v[2])
      [] Kind(T) = "int"       -> JNum(v[2], 0)
      [] Kind(T) = "float64"   -> JNum(v[2], v[3])
      [] Kind(T) = "bool"      -> JBool(v[2])
      [] Kind(T) = "ptr"       -> IF v = Nil THEN JNull ELSE MarshalTyped(v[2], T[2])
      [] Kind(T) = "slice"     ->
            IF v = Nil THEN JNull
            ELSE JArr([i \in 1..Len(v[2]) |-> MarshalTyped(v[2][i], T[2])])
      [] Kind(T) = "map"       ->
            IF v = Nil THEN JNull
            ELSE LET keys == SortStrings(DOMAIN v[2])
                 IN  JObj([i \in 1..Len(keys) |-> <<keys[i], MarshalTyped(v[2][keys[i]], T[3])>>])
      [] Kind(T) = "struct"    -> JObj(MarshalFields(T[2], v, 1))

\* the field an object key decodes into: an exact match of the name, else
\* the first field that matches it ignoring case; 0 when there is none
JsonFieldIndex(n, k) ==
    LET F == StructFields(n)
        exact == {i \in 1..Len(F) : ~JsonSkipped(F[i]) /\ JsonName(F[i]) = k}
        fold  == {i \in 1..Len(F) : ~JsonSkipped(F[i]) /\ EqualFold(JsonName(F[i]), k)}
        min(S) == CHOOSE i \in S : \A j \in S : i <= j
    IN  IF exact # {} THEN min(exact) ELSE IF fold # {} THEN min(fold) ELSE 0

RECURSIVE UnmarshalInto(_, _, _)
RECURSIVE UnmarshalMembers(_, _, _, _)
RECURSIVE MemberDone(_, _, _, _, _, _)
RECURSIVE UnmarshalElems(_, _, _, _)
RECURSIVE ElemDecoded(_, _, _, _, _)

\* json keeps decoding after a type error and returns the first one
FirstErr(e, f) == IF e = NoErr THEN f ELSE e
WithKey(s, k, v) == VMap([x \in (DOMAIN s[2]) \cup {k} |-> IF x = k THEN v ELSE s[2][x]])

\* a member decoded with result r is stored under name (a field of a
\* struct, a key of a map) and the rest of the members follow
MemberDone(members, T, s, e, name, r) ==
    UnmarshalMembers(Tail(members), T,
        IF Kind(T) = "struct" THEN WithField(s, name, r.val) ELSE WithKey(s, name, r.val),
        FirstErr(e, r.err))

\* the members of an object, in the order of the text, into the struct or
\* map s; e is the first error so far
UnmarshalMembers(members, T, s, e) ==
    IF members = <<>> THEN Fail(e, s)
    ELSE IF Kind(T) = "struct"
    THEN (IF JsonFieldIndex(T[2], Head(members)[1]) = 0
          THEN UnmarshalMembers(Tail(members), T, s, e)
          ELSE MemberDone(members, T, s, e,
                   FieldAt(T[2], JsonFieldIndex(T[2], Head(members)[1])).Name,
                   UnmarshalInto(Head(members)[2],
                       FieldAt(T[2], JsonFieldIndex(T[2], Head(members)[1])).type,
                       s[2][FieldAt(T[2], JsonFieldIndex(T[2], Head(members)[1])).Name])))
    ELSE MemberDone(members, T, s, e, Head(members)[1],
             UnmarshalInto(Head(members)[2], T[3], Zero(T[3])))

ElemDecoded(elems, E, s, e, r) ==
    UnmarshalElems(Tail(elems), E, Append(s, r.val), FirstErr(e, r.err))

UnmarshalElems(elems, E, s, e) ==
    IF elems = <<>> THEN Fail(e, VSlice(s))
    ELSE ElemDecoded(elems, E, s, e, UnmarshalInto(Head(elems), E, Zero(E)))

PtrTo(r) == [err |-> r.err, val |-> VPtr(r.val)]

\* json.Unmarshal of the tree j into a destination of type T that holds cur
UnmarshalInto(j, T, cur) ==
    IF j[1] = "null"
    THEN (IF Kind(T) \in {"interface", "ptr", "map", "slice"} THEN Ok(Nil) ELSE Ok(cur))
    ELSE IF Kind(T) = "ptr"
    THEN PtrTo(UnmarshalInto(j, T[2], IF cur = Nil THEN Zero(T[2]) ELSE cur[2]))
    ELSE IF Kind(T) = "interface" THEN Ok(ToAny(j))
    ELSE IF j[1] = "num" /\ Kind(T) = "int" /\ j[3] = 0 THEN Ok(VInt(j[2]))
    ELSE IF j[1] = "num" /\ Kind(T) = "float64" THEN Ok(VFloat(j[2], j[3]))
    ELSE IF j[1] = "str" /\ Kind(T) = "string" THEN Ok(VString(j[2]))
    ELSE IF j[1] = "bool" /\ Kind(T) = "bool" THEN Ok(VBool(j[2]))
    ELSE IF j[1] = "arr" /\ Kind(T) = "slice" THEN UnmarshalElems(j[2], T[2], <<>>, NoErr)
    ELSE IF j[1] = "obj" /\ Kind(T) = "map" /\ T[2] = TString
    THEN UnmarshalMembers(j[2], T, IF cur = Nil THEN EmptyMap ELSE cur, NoErr)
    ELSE IF j[1] = "obj" /\ Kind(T) = "struct" THEN UnmarshalMembers(j[2], T, cur, NoErr)
    ELSE Fail(ErrUnmarshalType, cur)

\* roundTripToStruct(o, v) for v a pointer to the struct value s of type n
roundTripToStruct(o, n, s) == UnmarshalInto(MarshalAny(o), TStruct(n), s)

(***************************************************************************)
(* Options.                                                                *)
(***************************************************************************)
unknownStructType     == 0
namedItemMap          == 1
anonymousItemMap      == 2
structuredMap         == 3
invalidJSONStructType == 4

UnknownOrdering == 0
Ascending       == 1
Descending      == 2
InvalidOrdering == 3

structTypeIsValid(j) == j > unknownStructType /\ j < invalidJSONStructType
OrderingIsValid(x)   == x > UnknownOrdering /\ x < InvalidOrdering

withStructType(j) == <<"withStructType", j>>
WithOrdering(x)   == <<"WithOrdering", x>>
WithNewFn(fn)     == <<"WithNewFn", fn>>

\* the functions NewFn can hold: nil, the package's newT, a caller's factory
nilFn    == "nil"
newTFn   == "newT"
callerFn == "callerFn"

\* ApplyOption without the isValid tests of the closures
ApplyOption_NoValidate(o, opt) ==
    CASE opt[1] = "withStructType" -> [o EXCEPT !.structType = opt[2]]
      [] opt[1] = "WithOrdering" -> [o EXCEPT !.Ordering = opt[2]]
      [] opt[1] = "WithNewFn" ->
            IF opt[2] # nilFn THEN [o EXCEPT !.NewFn = opt[2]] ELSE o

\* one option applied to the Options o
ApplyOption(o, opt) ==
    CASE opt[1] = "withStructType" ->
            IF structTypeIsValid(opt[2]) THEN [o EXCEPT !.structType = opt[2]] ELSE o
      [] opt[1] = "WithOrdering" ->
            IF OrderingIsValid(opt[2]) THEN [o EXCEPT !.Ordering = opt[2]] ELSE o
      [] opt[1] = "WithNewFn" ->
            IF opt[2] # nilFn THEN [o EXCEPT !.NewFn = opt[2]] ELSE o

RECURSIVE ApplyOptions(_, _)
ApplyOptions(o, opts) ==
    IF opts = <<>> THEN o ELSE ApplyOptions(ApplyOption(o, Head(opts)), Tail(opts))

\* the Options unmarshal starts from, and those marshal starts from
UnmarshalDefaults == [structType |-> namedItemMap, NewFn |-> newTFn, Ordering |-> Ascending]
MarshalDefaults   == [structType |-> namedItemMap, NewFn |-> nilFn, Ordering |-> UnknownOrdering]
\* the Options of a call that has built none
NoOptions         == [structType |-> unknownStructType, NewFn |-> nilFn, Ordering |-> UnknownOrdering]

(***************************************************************************)
(* The record type T of a call and its naming capability: Item, with       *)
(* SetName and GetName as the tests' myCountryDetails has them.            *)
(***************************************************************************)
RecordType == "Item"
MetaType   == "Meta"

SetName(r, name) == VStruct([r[2] EXCEPT !["Name"] = VString(name)])
GetName(r)       == r[2]["Name"][2]

\* newT is new(T); the caller's factory presets Capital
NewInstance(fn) ==
    IF fn = callerFn
    THEN VStruct([Zero(TStruct(RecordType))[2] EXCEPT !["Capital"] = VString("preset")])
    ELSE Zero(TStruct(RecordType))

(***************************************************************************)
(* unmarshal, block by block.                                              *)
(***************************************************************************)
ErrNoNameSpecified  == <<"name must be provided">>
ErrMetaNameNotFound == <<"meta name is not found">>
ErrDataNameNotFound == <<"data name is not found">>

\* HasKey written as len(mm[k]) > 0 in place of the comma-ok test
HasKey_NonEmpty(m, k) == m # Nil /\ k \in DOMAIN m[2] /\ m[2][k] # Nil /\ DOMAIN m[2][k][2] # {}

\* nm, ok := mm[k]
HasKey(m, k) == m # Nil /\ k \in DOMAIN m[2]

\* ResolveEnvelope as src/unpack.go:95-99 had it: a name that is absent gives
\* no error and an empty data map
ResolveEnvelope_Silent(structType, metaName, dataName, b, buffer) ==
    LET none == [err |-> NoErr, mm |-> Nil, mMeta |-> Nil, mData |-> Nil]
    IN  CASE structType \in {namedItemMap, structuredMap} ->
                LET r == UnmarshalMap2Map(b, buffer)
                IN  IF r.err # NoErr THEN [none EXCEPT !.err = r.err, !.mm = r.m]
                    ELSE [none EXCEPT !.mm = r.m,
                            !.mMeta = IF structType = structuredMap /\ HasKey(r.m, metaName)
                                      THEN r.m[2][metaName] ELSE Nil,
                            !.mData = IF HasKey(r.m, dataName) THEN r.m[2][dataName] ELSE Nil]
          [] structType = anonymousItemMap ->
                LET r == UnmarshalMap(b, buffer)
                IN  [none EXCEPT !.err = r.err, !.mData = r.m]
          [] OTHER -> none

\* ResolveEnvelope with the check src/unnamed/part_001:44-47 had: an outer map
\* of more entries than the declared names is "incorrectly formed JSON"
ResolveEnvelope_SingleKey(structType, metaName, dataName, b, buffer) ==
    LET none == [err |-> NoErr, mm |-> Nil, mMeta |-> Nil, mData |-> Nil]
    IN  CASE structType \in {namedItemMap, structuredMap} ->
                LET r == UnmarshalMap2Map(b, buffer)
                    n == IF structType = namedItemMap THEN 1 ELSE 2
                IN  IF r.err # NoErr THEN [none EXCEPT !.err = r.err, !.mm = r.m]
                    ELSE IF r.m # Nil /\ Cardinality(DOMAIN r.m[2]) # n
                    THEN [none EXCEPT !.err = <<"incorrectly formed JSON">>, !.mm = r.m]
                    ELSE IF structType = structuredMap /\ ~HasKey(r.m, metaName)
                    THEN [none EXCEPT !.err = ErrMetaNameNotFound, !.mm = r.m]
                    ELSE IF ~HasKey(r.m, dataName)
                    THEN [none EXCEPT !.err = ErrDataNameNotFound, !.mm = r.m]
                    ELSE [none EXCEPT !.mm = r.m,
                            !.mMeta = IF structType = structuredMap
                                      THEN r.m[2][metaName] ELSE Nil,
                            !.mData = r.m[2][dataName]]
          [] structType = anonymousItemMap ->
                LET r == UnmarshalMap(b, buffer)
                IN  [none EXCEPT !.err = r.err, !.mData = r.m]
          [] OTHER -> none

\* the switch on o.structType, buffer being the map that acquireMap or
\* acquireMap2Map returned: the maps it leaves in mm, mMeta and mData and
\* the error it returns
ResolveEnvelope(structType, metaName, dataName, b, buffer) ==
    LET none == [err |-> NoErr, mm |-> Nil, mMeta |-> Nil, mData |-> Nil]
    IN  CASE structType = namedItemMap ->
                LET r == UnmarshalMap2Map(b, buffer)
                IN  IF r.err # NoErr THEN [none EXCEPT !.err = r.err, !.mm = r.m]
                    ELSE IF ~HasKey(r.m, dataName)
                    THEN [none EXCEPT !.err = ErrDataNameNotFound, !.mm = r.m]
                    ELSE [none EXCEPT !.mm = r.m, !.mData = r.m[2][dataName]]
          [] structType = structuredMap ->
                LET r == UnmarshalMap2Map(b, buffer)
                IN  IF r.err # NoErr THEN [none EXCEPT !.err = r.err, !.mm = r.m]
                    ELSE IF ~HasKey(r.m, metaName)
                    THEN [none EXCEPT !.err = ErrMetaNameNotFound, !.mm = r.m]
                    ELSE IF ~HasKey(r.m, dataName)
                    THEN [none EXCEPT !.err = ErrDataNameNotFound, !.mm = r.m,
                                      !.mMeta = r.m[2][metaName]]
                    ELSE [none EXCEPT !.mm = r.m, !.mMeta = r.m[2][metaName],
                                      !.mData = r.m[2][dataName]]
          [] structType = anonymousItemMap ->
                LET r == UnmarshalMap(b, buffer)
                IN  [none EXCEPT !.err = r.err, !.mData = r.m]
          [] OTHER -> none

\* DecodeMeta with the fallback of the loop over sortedKeys
DecodeMeta_WithFallback(mMeta) ==
    IF mMeta = Nil THEN Ok(Nil)
    ELSE IF mapToStruct(mMeta[2], MetaType, Zero(TStruct(MetaType))).err = NoErr
    THEN KeepPtr(mapToStruct(mMeta[2], MetaType, Zero(TStruct(MetaType))), Nil)
    ELSE KeepPtr(roundTripToStruct(mMeta, MetaType, Zero(TStruct(MetaType))), Nil)

\* the metadata block: nothing for a nil mMeta, else mapToStruct into new(M)
DecodeMeta(mMeta) ==
    IF mMeta = Nil THEN Ok(Nil)
    ELSE KeepPtr(mapToStruct(mMeta[2], MetaType, Zero(TStruct(MetaType))), Nil)

\* SortedKeys without the slices.Reverse of Descending
SortedKeys_NoReverse(mData, ordering) ==
    SortStrings(IF mData = Nil THEN {} ELSE DOMAIN mData[2])

\* the keys of mData, sorted, and reversed for Descending
SortedKeys(mData, ordering) ==
    LET asc == SortStrings(IF mData = Nil THEN {} ELSE DOMAIN mData[2])
    IN  IF ordering = Descending THEN Reverse(asc) ELSE asc

\* what one turn of the loop did: whether the type assertion panicked, the
\* error returned, the record appended, and what was attempted (primary,
\* fallback: "none", "ok" or "fail"; news: the calls of o.NewFn)
Turn(panic, err, rec, primary, fallback, news) ==
    [panic |-> panic, err |-> err, rec |-> rec, primary |-> primary,
     fallback |-> fallback, news |-> news]

\* FallbackDone with r.SetName(name) reached on the primary path alone
FallbackDone_NoSetName(name, q) ==
    IF q.err # NoErr THEN Turn(FALSE, q.err, Nil, "fail", "fail", 2)
    ELSE Turn(FALSE, NoErr, q.val, "fail", "ok", 2)

\* the turn after roundTripToStruct returned q
FallbackDone(name, q) ==
    IF q.err # NoErr THEN Turn(FALSE, q.err, Nil, "fail", "fail", 2)
    ELSE Turn(FALSE, NoErr, SetName(q.val, name), "fail", "ok", 2)

\* PrimaryDone without the second r = o.NewFn(): the fallback decodes into
\* the instance the failed mapToStruct left
PrimaryDone_Reuse(fn, name, entry, p) ==
    IF p.err = NoErr THEN Turn(FALSE, NoErr, SetName(p.val, name), "ok", "none", 1)
    ELSE FallbackDone(name, roundTripToStruct(entry, RecordType, p.val))

\* the turn after mapToStruct returned p: the fallback decodes into another
\* o.NewFn()
PrimaryDone(fn, name, entry, p) ==
    IF p.err = NoErr THEN Turn(FALSE, NoErr, SetName(p.val, name), "ok", "none", 1)
    ELSE FallbackDone(name, roundTripToStruct(entry, RecordType, NewInstance(fn)))

\* one turn of the loop over sortedKeys for the entry under name
DecodeEntry(fn, name, entry) ==
    IF entry[1] # "map" THEN Turn(TRUE, NoErr, Nil, "none", "none", 1)
    ELSE PrimaryDone(fn, name, entry, mapToStruct(entry[2], RecordType, NewInstance(fn)))

(***************************************************************************)
(* marshal.                                                                *)
(***************************************************************************)
\* RecordsByName keeping the record a name already has
RECURSIVE RecordsByName_FirstWins(_, _)
RecordsByName_FirstWins(data, m) ==
    IF data = <<>> THEN m
    ELSE LET k == GetName(Head(data))
         IN  RecordsByName_FirstWins(Tail(data),
                 [x \in (DOMAIN m) \cup {k} |-> IF x \in DOMAIN m THEN m[x] ELSE Head(data)])

\* the map built from data: m[d.GetName()] = d, in sequence order
RECURSIVE RecordsByName(_, _)
RecordsByName(data, m) ==
    IF data = <<>> THEN m
    ELSE LET k == GetName(Head(data))
         IN  RecordsByName(Tail(data),
                 [x \in (DOMAIN m) \cup {k} |-> IF x = k THEN Head(data) ELSE m[x]])

\* json.Marshal of the map of records
MarshalRecords(m) ==
    LET keys == SortStrings(DOMAIN m)
    IN  JObj([i \in 1..Len(keys) |-> <<keys[i], MarshalTyped(m[keys[i]], TStruct(RecordType))>>])

\* json.Marshal of a map[string]map[string]any whose inner values are
\* records or what json.Unmarshal stored
MarshalMap2Map(mm) ==
    LET keys == SortStrings(DOMAIN mm[2])
        inner(v) == LET ks == SortStrings(DOMAIN v[2])
                    IN  JObj([i \in 1..Len(ks) |->
                                <<ks[i], IF v[2][ks[i]][1] = "struct"
                                         THEN MarshalTyped(v[2][ks[i]], TStruct(RecordType))
                                         ELSE MarshalAny(v[2][ks[i]])>>])
    IN  JObj([i \in 1..Len(keys) |->
                <<keys[i], IF mm[2][keys[i]] = Nil THEN JNull ELSE inner(mm[2][keys[i]])>>])

\* marshal(name, data, opts), buffer being the map acquireMap2Map returns
\* when it is called: the bytes, or a panic for an unsupported shape, and
\* the map of maps passed to releaseMap2Map (Nil: none was acquired)
marshal(name, data, opts, buffer) ==
    LET o == ApplyOptions(MarshalDefaults, opts)
        m == RecordsByName(data, <<>>)
    IN  CASE o.structType = namedItemMap ->
                [panic |-> FALSE, o |-> o,
                 mm |-> MergeInto(buffer, VMap([k \in {name} |-> VMap(m)])),
                 bytes |-> MarshalMap2Map(MergeInto(buffer, VMap([k \in {name} |-> VMap(m)])))]
          [] o.structType = anonymousItemMap ->
                [panic |-> FALSE, o |-> o, mm |-> Nil, bytes |-> MarshalRecords(m)]
          [] OTHER -> [panic |-> TRUE, o |-> o, mm |-> Nil, bytes |-> Nil]

(***************************************************************************)
(* The inputs of the calls.                                                *)
(***************************************************************************)
\* the most members a data object of a generated document has
MaxEntries == 2
\* the most records a call of Marshal or MarshalWithName is given
MaxRecords == 2
\* the most buffers of one pool that exist at a time
MaxBuffers == 2

EntryNames == {"B", "a", "ab"}

\* entries: an empty object; an object that names every tagged field and
\* carries a value for Name; one whose count no rule of setFieldValue takes
\* (a number for a *int) and that json.Unmarshal decodes; one that neither
\* path decodes (a number for a string); a scalar
EVEmpty    == JObj(<<>>)
EVFull     == JObj(<< <<"Name", JStr("zz")>>, <<"capital", JStr("Rome")>>,
                      <<"population", JObj(<< <<"p", JNum(1, 0)>> >>)>> >>)
EVFallback == JObj(<< <<"capital", JStr("Oslo")>>, <<"", JStr("n")>>, <<"count", JNum(1, 0)>> >>)
EVBad      == JObj(<< <<"capital", JNum(1, 0)>> >>)
EVScalar   == JNum(1, 0)
EntryValues == {EVEmpty, EVFull, EVFallback, EVBad, EVScalar}
\* an entry whose population holds the number 1.5
EVFrac     == JObj(<< <<"capital", JStr("Rome")>>,
                      <<"population", JObj(<< <<"p", JNum(1, 1)>> >>)>> >>)

MemberKeys(members) == {members[i][1] : i \in 1..Len(members)}

\* the member lists of at most n members with distinct keys, in every order
RECURSIVE MemberLists(_)
MemberLists(n) ==
    IF n = 0 THEN {<<>>}
    ELSE LET prev == MemberLists(n - 1)
         IN  prev \cup UNION {{Append(s, <<k, v>>) : k \in EntryNames \ MemberKeys(s), v \in EntryValues}
                               : s \in {p \in prev : Len(p) = n - 1}}

DataObjects == {JObj(s) : s \in MemberLists(MaxEntries)}

Wrap1(k, v)          == JObj(<< <<k, v>> >>)
Wrap2(k1, v1, k2, v2) == JObj(<< <<k1, v1>>, <<k2, v2>> >>)
DataAB == JObj(<< <<"a", EVFull>>, <<"B", EVEmpty>> >>)

\* roots that are no object
BadRoots == {JBad, JNull, JArr(<<EVEmpty>>), JNum(1, 0), JStr("a")}

AnonDocs ==
    DataObjects \cup BadRoots
    \cup { Wrap1("a", JNull), Wrap1("a", JArr(<<>>)), Wrap1("a", JStr("s")),
           Wrap2("a", EVEmpty, "a", EVFull),
           Wrap1("a", JObj(<< <<"Capital", JStr("Bern")>>, <<"count", JNum(1, 0)>> >>)),
           Wrap1("a", EVFrac),
           Wrap1("a", JObj(<< <<"capital", JStr("Oslo")>>, <<"", JStr("n")>> >>)),
           Wrap1("a", JObj(<< <<"x", JNum(1, 0)>>, <<"secret", JStr("s")>>,
                              <<"Skip", JStr("k")>>, <<"-", JStr("k")>> >>)) }

NamedDocs ==
    {Wrap1("d", d) : d \in DataObjects} \cup BadRoots
    \cup { JObj(<<>>), Wrap1("x", DataAB), Wrap1("d", JNull), Wrap1("d", JNum(1, 0)),
           Wrap1("d", JArr(<<>>)), Wrap2("x", JNum(1, 0), "d", DataAB),
           Wrap2("x", EVEmpty, "d", DataAB), Wrap2("d", DataAB, "x", JNull),
           Wrap1("d", Wrap1("a", JNull)), Wrap1("d", Wrap1("a", JArr(<<>>))),
           Wrap1("d", Wrap1("a", EVFrac)) }

MetaGood == JObj(<< <<"version", JNum(1, 0)>> >>)
MetaBad  == JObj(<< <<"version", JStr("one")>> >>)
\* metadata that mapToStruct fails on and json.Unmarshal decodes
MetaCount == JObj(<< <<"version", JNum(1, 0)>>, <<"count", JNum(1, 0)>> >>)
\* metadata whose version is the number -1.5
MetaFrac  == JObj(<< <<"version", JNum(-2, 1)>> >>)

StructuredDocs ==
    {Wrap2("m", MetaGood, "d", d) : d \in DataObjects} \cup BadRoots
    \cup { JObj(<<>>), Wrap1("m", MetaGood), Wrap1("d", DataAB), Wrap1("x", EVEmpty),
           Wrap2("m", MetaBad, "d", DataAB), Wrap2("m", MetaBad, "d", Wrap1("a", EVBad)),
           Wrap2("m", MetaCount, "d", DataAB), Wrap2("m", EVFull, "d", DataAB),
           Wrap2("m", MetaFrac, "d", DataAB),
           Wrap2("m", JNull, "d", DataAB), Wrap2("d", DataAB, "m", EVEmpty),
           Wrap2("m", MetaGood, "d", JNull), Wrap2("m", JNum(1, 0), "d", DataAB),
           Wrap2("m", MetaGood, "d", JArr(<<>>)),
           JObj(<< <<"m", MetaGood>>, <<"d", DataAB>>, <<"x", EVEmpty>> >>),
           JObj(<< <<"m", MetaGood>>, <<"d", DataAB>>, <<"x", JNum(1, 0)>> >>),
           Wrap1("x", JNum(1, 0)) }

Names == {"", "d"}

OptLists ==
    { <<>>, <<WithOrdering(Ascending)>>, <<WithOrdering(Descending)>>,
      <<WithOrdering(UnknownOrdering)>>,
      <<WithOrdering(Descending), WithOrdering(InvalidOrdering), WithOrdering(-1)>>,
      <<WithOrdering(Descending), WithOrdering(Ascending)>>,
      <<WithNewFn(callerFn)>>, <<WithNewFn(nilFn), WithOrdering(Descending)>> }

\* the options given to Marshal; a caller inside the package can pass
\* withStructType itself
MarshalOptLists ==
    { <<>>, <<WithOrdering(Descending)>>, <<WithOrdering(InvalidOrdering)>>,
      <<withStructType(structuredMap)>> }

\* records: every name with fields that the primary path decodes, with a
\* Count (which only the fallback decodes), and with a Note
ItemOf(name, capital, note, population, count) ==
    VStruct([f \in FieldNames(RecordType) |->
        CASE f = "Name" -> VString(name)
          [] f = "Capital" -> VString(capital)
          [] f = "Note" -> VString(note)
          [] f = "Population" -> population
          [] f = "Count" -> count
          [] OTHER -> VString("")])

RecordValues ==
    UNION {{ ItemOf(n, "Rome", "", VMap([k \in {"p"} |-> VInt(1)]), Nil),
             ItemOf(n, "", "", Nil, VPtr(VInt(1))),
             ItemOf(n, "Oslo", "n", Nil, Nil) } : n \in EntryNames}

RECURSIVE SeqsUpTo(_, _)
SeqsUpTo(S, n) ==
    IF n = 0 THEN {<<>>}
    ELSE LET prev == SeqsUpTo(S, n - 1)
         IN  prev \cup {Append(s, x) : s \in {p \in prev : Len(p) = n - 1}, x \in S}

RecordLists == SeqsUpTo(RecordValues, MaxRecords)

(***************************************************************************)
(* The state: one call at a time, unmarshal block by block.                *)
(***************************************************************************)
VARIABLES
    pc,          \* "idle", "resolve", "meta", "sort", "loop", "done", "panic"
    args,        \* the arguments of the call
    o,           \* the Options the call built
    mm,          \* the outer map of maps
    mMeta,       \* the metadata map
    mData,       \* the data map
    meta,        \* the decoded metadata
    sortedKeys,
    ptData,      \* the records decoded so far
    ret,         \* what the call returned
    log,         \* per entry handled: what the loop attempted
    src,         \* <<"records", rs>> when args.b is the encoding of rs,
                 \* <<"document", d>> when args.data was decoded from d
    pools,       \* mPool and mmPool: per pool the buffers in it, <<id, map, used>>
                 \* (used: the buffer held entries when it was released)
    buf,         \* the buffer the call acquired, whether it came used from the
                 \* pool, and how often the call released it
    other        \* the buffer a call on another goroutine holds: <<pool, id, map>>

vars == <<pc, args, o, mm, mMeta, mData, meta, sortedKeys, ptData, ret, log, src,
          pools, buf, other>>
locals == <<mm, mMeta, mData, meta, sortedKeys, ptData, log>>

\* mm and mData keep, after the return, the maps as json.Unmarshal left
\* them; what releaseMap and releaseMap2Map leave of a buffer is in pools.

(***************************************************************************)
(* The pools.  A sync.Pool hands out a buffer that was put into it, or a   *)
(* new one; the buffer it hands out is no longer in it.                    *)
(***************************************************************************)
NoPools == [m |-> {}, mm |-> {}]
NoBuf   == [acq |-> Nil, reused |-> FALSE, puts |-> 0]

\* for k := range m { delete(m, k) }, left out
ClearMap_Keep(m) == m

\* for k := range m { delete(m, k) }
ClearMap(m) == EmptyMap

\* Get that leaves the buffer in the pool
PoolTake_Keep(p, id) == p

\* the pool p after Get returned the buffer id
PoolTake(p, id) == {e \in p : e[1] # id}

\* the pool p after releaseMap or releaseMap2Map of the buffer id, which
\* holds the map m
PoolPut(p, id, m) == p \cup {<<id, ClearMap(m), m # EmptyMap>>}

PoolIds(p) == {e[1] : e \in p}

\* the pool an unmarshal of the shape st uses
PoolOf(st) == IF st = anonymousItemMap THEN "m" ELSE "mm"

\* the variable the deferred function of unmarshal tests and releases
HeldVar == IF buf.acq[1] = "m" THEN mData ELSE mm

\* the buffers of a pool that the call, and the other goroutine, hold
MainHeld(kind) ==
    IF buf.acq[1] = kind /\ pc \in {"meta", "sort", "loop"} /\ HeldVar # Nil
    THEN {buf.acq[2]} ELSE {}
OtherHeld(kind) == IF other[1] = kind THEN {other[2]} ELSE {}

\* what Get can return: a buffer of the pool, or the one New makes
Gettable(kind) ==
    LET free == (1..MaxBuffers) \ (PoolIds(pools[kind]) \cup MainHeld(kind) \cup OtherHeld(kind))
    IN  PoolIds(pools[kind])
          \cup (IF free = {} THEN {} ELSE {CHOOSE i \in free : \A j \in free : i <= j})

\* the map Get returns as the buffer id: New returns an empty map
GotMap(kind, id) ==
    IF id \in PoolIds(pools[kind]) THEN (CHOOSE e \in pools[kind] : e[1] = id)[2] ELSE EmptyMap

\* acquireMap / acquireMap2Map returning the buffer id
acquire(kind, id) == ClearMap(GotMap(kind, id))

\* the call acquired the buffer id; when it returns at once, the deferred
\* function releases the variable v unless it is nil
Acquired(kind, id, returns, v) ==
    /\ buf' = [acq |-> <<kind, id>>, reused |-> \E e \in pools[kind] : e[1] = id /\ e[3],
               puts |-> IF returns /\ v # Nil THEN 1 ELSE 0]
    /\ pools' = [pools EXCEPT ![kind] =
                    IF returns /\ v # Nil THEN PoolPut(PoolTake(@, id), id, v)
                    ELSE PoolTake(@, id)]

\* the deferred function of unmarshal, run when the step returns or panics
Deferred ==
    IF pc' \in {"done", "panic"} /\ HeldVar # Nil
    THEN /\ pools' = [pools EXCEPT ![buf.acq[1]] = PoolPut(@, buf.acq[2], HeldVar)]
         /\ buf' = [buf EXCEPT !.puts = @ + 1]
    ELSE UNCHANGED <<pools, buf>>

NoArgs == [fn |-> "", metaName |-> "", dataName |-> "", b |-> Nil, opts |-> <<>>, data |-> <<>>]
NoRet  == [data |-> Nil, meta |-> Nil, bytes |-> Nil, err |-> NoErr]

Cleared ==
    /\ mm' = Nil /\ mMeta' = Nil /\ mData' = Nil /\ meta' = Nil
    /\ sortedKeys' = <<>> /\ ptData' = <<>> /\ log' = <<>>

Init ==
    /\ pc = "idle" /\ args = NoArgs /\ o = NoOptions /\ ret = NoRet /\ src = Nil
    /\ mm = Nil /\ mMeta = Nil /\ mData = Nil /\ meta = Nil
    /\ sortedKeys = <<>> /\ ptData = <<>> /\ log = <<>>
    /\ pools = NoPools /\ buf = NoBuf /\ other = Nil

\* return nil, err
ReturnError(e) ==
    /\ pc' = "done"
    /\ ret' = [NoRet EXCEPT !.err = e]

\* the entry of unmarshal: the Options are built
StartUnmarshal(fn, metaName, dataName, b, opts, st, from) ==
    /\ pc' = "resolve"
    /\ args' = [fn |-> fn, metaName |-> metaName, dataName |-> dataName, b |-> b,
                opts |-> opts, data |-> <<>>]
    /\ o' = ApplyOptions(UnmarshalDefaults, Append(opts, withStructType(st)))
    /\ ret' = NoRet
    /\ src' = from
    /\ Cleared
    /\ buf' = NoBuf
    /\ UNCHANGED <<pools, other>>

Unmarshal(b, opts) ==
    /\ pc = "idle"
    /\ StartUnmarshal("Unmarshal", "", "", b, opts, anonymousItemMap, Nil)

\* UnmarshalWithName without the len(name) == 0 check
UnmarshalWithName_NoCheck(name, b, opts) ==
    /\ pc = "idle"
    /\ StartUnmarshal("UnmarshalWithName", "", name, b, opts, namedItemMap, Nil)

UnmarshalWithName(name, b, opts) ==
    /\ pc = "idle"
    /\ IF Len(Bytes(name)) = 0
       THEN /\ ReturnError(ErrNoNameSpecified)
            /\ args' = [NoArgs EXCEPT !.fn = "UnmarshalWithName", !.dataName = name,
                                      !.b = b, !.opts = opts]
            /\ buf' = NoBuf
            /\ UNCHANGED <<o, locals, src, pools, other>>
       ELSE StartUnmarshal("UnmarshalWithName", "", name, b, opts, namedItemMap, Nil)

UnmarshalStructuredData(metaName, dataName, b, opts) ==
    /\ pc = "idle"
    /\ StartUnmarshal("UnmarshalStructuredData", metaName, dataName, b, opts, structuredMap, Nil)

\* a caller decodes what Marshal or MarshalWithName just returned
UnmarshalEncoded ==
    /\ pc = "done" /\ args.fn = "Marshal" /\ ret.err = NoErr
    /\ StartUnmarshal("Unmarshal", "", "", ret.bytes, <<>>, anonymousItemMap,
                      <<"records", args.data>>)

UnmarshalWithNameEncoded ==
    /\ pc = "done" /\ args.fn = "MarshalWithName" /\ ret.err = NoErr
    /\ StartUnmarshal("UnmarshalWithName", "", args.dataName, ret.bytes, <<>>, namedItemMap,
                      <<"records", args.data>>)

\* an error is returned, or the call goes on at next
ReturnOr(e, next) ==
    IF e # NoErr THEN ReturnError(e) ELSE pc' = next /\ ret' = ret

Resolved(kind, id, r) ==
    /\ mm' = r.mm /\ mMeta' = r.mMeta /\ mData' = r.mData
    /\ ReturnOr(r.err, "meta")
    /\ Acquired(kind, id, r.err # NoErr, IF kind = "m" THEN r.mData ELSE r.mm)

\* the switch on o.structType: the buffer is acquired and decoded into
Resolve ==
    /\ pc = "resolve"
    /\ \E id \in Gettable(PoolOf(o.structType)) :
            Resolved(PoolOf(o.structType), id,
                     ResolveEnvelope(o.structType, args.metaName, args.dataName, args.b,
                                     acquire(PoolOf(o.structType), id)))
    /\ UNCHANGED <<args, o, meta, sortedKeys, ptData, log, src, other>>

MetadataDone(r) ==
    /\ meta' = r.val
    /\ ReturnOr(r.err, "sort")

\* the metadata block
Metadata ==
    /\ pc = "meta"
    /\ MetadataDone(DecodeMeta(mMeta))
    /\ Deferred
    /\ UNCHANGED <<args, o, mm, mMeta, mData, sortedKeys, ptData, log, src, other>>

\* the keys are collected, sorted and, for Descending, reversed
Sort ==
    /\ pc = "sort"
    /\ sortedKeys' = SortedKeys(mData, o.Ordering)
    /\ pc' = "loop"
    /\ UNCHANGED <<args, o, mm, mMeta, mData, meta, ptData, ret, log, src, pools, buf, other>>

\* EntryDone returning, with the error, the records decoded so far
EntryDone_Partial(name, r) ==
    /\ log' = Append(log, [name |-> name, primary |-> r.primary,
                           fallback |-> r.fallback, news |-> r.news])
    /\ IF r.panic THEN pc' = "panic" /\ UNCHANGED <<ptData, ret>>
       ELSE IF r.err # NoErr
            THEN /\ pc' = "done"
                 /\ ret' = [NoRet EXCEPT !.err = r.err, !.data = VSlice(ptData)]
                 /\ UNCHANGED ptData
       ELSE pc' = "loop" /\ ptData' = Append(ptData, r.rec) /\ ret' = ret

EntryDone(name, r) ==
    /\ log' = Append(log, [name |-> name, primary |-> r.primary,
                           fallback |-> r.fallback, news |-> r.news])
    /\ IF r.panic THEN pc' = "panic" /\ UNCHANGED <<ptData, ret>>
       ELSE IF r.err # NoErr THEN ReturnError(r.err) /\ UNCHANGED ptData
       ELSE pc' = "loop" /\ ptData' = Append(ptData, r.rec) /\ ret' = ret

\* one turn of the loop over sortedKeys
Entry ==
    /\ pc = "loop" /\ Len(ptData) < Len(sortedKeys)
    /\ EntryDone(sortedKeys[Len(ptData) + 1],
                 DecodeEntry(o.NewFn, sortedKeys[Len(ptData) + 1],
                             mData[2][sortedKeys[Len(ptData) + 1]]))
    /\ Deferred
    /\ UNCHANGED <<args, o, mm, mMeta, mData, meta, sortedKeys, src, other>>

\* the StructuredData is returned; Unmarshal and UnmarshalWithName return
\* its Data alone
Finish ==
    /\ pc = "loop" /\ Len(ptData) = Len(sortedKeys)
    /\ pc' = "done"
    /\ ret' = [NoRet EXCEPT !.data = VSlice(ptData),
                            !.meta = IF args.fn = "UnmarshalStructuredData" THEN meta ELSE Nil]
    /\ Deferred
    /\ UNCHANGED <<args, o, locals, src, other>>

\* the result of marshal, which acquired the buffer id of mmPool when it
\* encoded a named map: releaseMap2Map runs as marshal returns
ReturnMarshalled(id, r) ==
    /\ o' = r.o
    /\ IF r.panic THEN pc' = "panic" /\ ret' = NoRet
       ELSE pc' = "done" /\ ret' = [NoRet EXCEPT !.bytes = r.bytes]
    /\ IF r.mm # Nil THEN Acquired("mm", id, TRUE, r.mm)
       ELSE buf' = NoBuf /\ pools' = pools

Marshal(data, opts) ==
    /\ pc = "idle"
    /\ args' = [NoArgs EXCEPT !.fn = "Marshal", !.data = data, !.opts = opts]
    /\ \E id \in Gettable("mm") :
            ReturnMarshalled(id, marshal("", data, Append(opts, withStructType(anonymousItemMap)),
                                         acquire("mm", id)))
    /\ UNCHANGED <<locals, src, other>>

MarshalWithName(name, data, opts) ==
    /\ pc = "idle"
    /\ args' = [NoArgs EXCEPT !.fn = "MarshalWithName", !.dataName = name, !.data = data,
                              !.opts = opts]
    /\ IF Len(Bytes(name)) = 0
       THEN ReturnError(ErrNoNameSpecified) /\ o' = o /\ buf' = NoBuf /\ pools' = pools
       ELSE \E id \in Gettable("mm") :
                ReturnMarshalled(id, marshal(name, data, Append(opts, withStructType(namedItemMap)),
                                             acquire("mm", id)))
    /\ UNCHANGED <<locals, src, other>>

\* a caller encodes the records it decoded from what Marshal or
\* MarshalWithName had returned, with the same name
MarshalDecoded ==
    /\ pc = "done" /\ args.fn \in {"Unmarshal", "UnmarshalWithName"}
    /\ ret.err = NoErr /\ src # Nil /\ src[1] = "records"
    /\ args' = [NoArgs EXCEPT !.fn = IF args.fn = "Unmarshal" THEN "Marshal"
                                     ELSE "MarshalWithName",
                              !.dataName = args.dataName, !.data = ret.data[2]]
    /\ \E id \in Gettable("mm") :
            ReturnMarshalled(id, marshal(args.dataName, ret.data[2],
                <<withStructType(IF args.fn = "Unmarshal" THEN anonymousItemMap
                                 ELSE namedItemMap)>>, acquire("mm", id)))
    /\ src' = <<"document", args.b>>
    /\ UNCHANGED <<locals, other>>

\* the caller is done with the result (or the panic was recovered); before
\* its next call a garbage collection empties the pools
Reset ==
    /\ pc \in {"done", "panic"}
    /\ pc' = "idle" /\ args' = NoArgs /\ o' = NoOptions /\ ret' = NoRet /\ src' = Nil
    /\ Cleared
    /\ pools' = NoPools /\ buf' = NoBuf /\ other' = other

\* a caller calls one of the five functions with some arguments
CallUnmarshal ==
    pc = "idle" /\ \E b \in AnonDocs, opts \in OptLists : Unmarshal(b, opts)

CallUnmarshalWithName ==
    pc = "idle" /\ \E name \in Names, b \in NamedDocs, opts \in OptLists :
                        UnmarshalWithName(name, b, opts)

CallUnmarshalStructuredData ==
    pc = "idle" /\ \E b \in StructuredDocs, opts \in OptLists :
                        UnmarshalStructuredData("m", "d", b, opts)

CallMarshal ==
    pc = "idle" /\ \E data \in RecordLists, opts \in MarshalOptLists : Marshal(data, opts)

CallMarshalWithName ==
    pc = "idle" /\ \E name \in Names, data \in RecordLists : MarshalWithName(name, data, <<>>)

Next ==
    \/ CallUnmarshal
    \/ CallUnmarshalWithName
    \/ CallUnmarshalStructuredData
    \/ CallMarshal
    \/ CallMarshalWithName
    \/ UnmarshalEncoded
    \/ UnmarshalWithNameEncoded
    \/ MarshalDecoded
    \/ Resolve
    \/ Metadata
    \/ Sort
    \/ Entry
    \/ Finish
    \/ Reset

Spec == Init /\ [][Next]_vars

(***************************************************************************)
(* The pools over many calls: the buffers stay in the pools from one call  *)
(* to the next, and a call on another goroutine acquires, fills and        *)
(* releases buffers of the same pools between the steps of this one.       *)
(***************************************************************************)
PoolInputs ==
    [ anon       |-> { Wrap1("a", EVFull), DataAB, JNull, JBad, Wrap1("a", EVScalar),
                       Wrap1("B", EVBad) },
      named      |-> { Wrap1("d", DataAB), Wrap1("x", DataAB), JNull, Wrap1("d", JNum(1, 0)) },
      structured |-> { Wrap2("m", MetaGood, "d", DataAB), Wrap2("m", MetaBad, "d", DataAB),
                       Wrap1("d", DataAB), JNull },
      records    |-> { <<>>, <<ItemOf("a", "Rome", "", Nil, Nil)>> } ]

CallPooled ==
    /\ pc = "idle"
    /\ \/ \E b \in PoolInputs.anon : Unmarshal(b, <<>>)
       \/ \E b \in PoolInputs.named : UnmarshalWithName("d", b, <<>>)
       \/ \E b \in PoolInputs.structured : UnmarshalStructuredData("m", "d", b, <<>>)
       \/ \E data \in PoolInputs.records : MarshalWithName("d", data, <<>>)

\* the caller is done with the result (or the panic was recovered)
NextCall ==
    /\ pc \in {"done", "panic"}
    /\ pc' = "idle" /\ args' = NoArgs /\ o' = NoOptions /\ ret' = NoRet /\ src' = Nil
    /\ Cleared
    /\ buf' = NoBuf
    /\ UNCHANGED <<pools, other>>

\* the document the other call decodes into its buffer
OtherMap(kind) ==
    IF kind = "m" THEN ToAny(Wrap1("x", EVFull)) ELSE ToAny(Wrap1("d", Wrap1("x", EVFull)))

\* the other call acquires a buffer and decodes its document into it
OtherAcquire ==
    /\ other = Nil
    /\ \E kind \in {"m", "mm"} : \E id \in Gettable(kind) :
            /\ other' = <<kind, id, MergeInto(acquire(kind, id), OtherMap(kind))>>
            /\ pools' = [pools EXCEPT ![kind] = PoolTake(@, id)]
    /\ UNCHANGED <<pc, args, o, locals, ret, src, buf>>

\* the other call returns: its deferred function releases the buffer, or,
\* its document having been null, does not
OtherReturn ==
    /\ other # Nil
    /\ other' = Nil
    /\ \/ pools' = [pools EXCEPT ![other[1]] = PoolPut(@, other[2], other[3])]
       \/ pools' = pools
    /\ UNCHANGED <<pc, args, o, locals, ret, src, buf>>

PoolNext ==
    \/ CallPooled
    \/ Resolve
    \/ Metadata
    \/ Sort
    \/ Entry
    \/ Finish
    \/ NextCall
    \/ OtherAcquire
    \/ OtherReturn

PoolSpec == Init /\ [][PoolNext]_vars

(***************************************************************************)
(* The coercion engine on its own: a value that json.Unmarshal produced is *)
(* set into a fresh field of type T, and then, as the value of a one-entry *)
(* map, into a fresh field of type map[string]T.                           *)
(***************************************************************************)
ValueTypes ==
    { TString, TInt, TFloat64, TBool, TAny, TMap(TString, TInt), TSlice(TInt),
      TSlice(TSlice(TInt)), TSlice(TPtr(TInt)),
      TStruct(MetaType), TPtr(TStruct(MetaType)), TPtr(TInt) }

JsonValues ==
    { JNull, JStr("a"), JNum(1, 0), JNum(1, 1), JBool(TRUE), EVEmpty, MetaGood, MetaBad,
      Wrap1("p", JNum(1, 0)), JArr(<<>>), JArr(<<JNum(1, 0)>>), JArr(<<JStr("a")>>),
      JArr(<<JNum(2, 0), JNum(1, 0)>>), JArr(<<JNum(1, 0), JStr("a")>>),
      JArr(<<JNull, JNum(1, 1)>>) }

CoerceInit ==
    /\ pc = "coerce"
    /\ args \in [fn : {"setFieldValue"}, T : ValueTypes, value : {ToAny(j) : j \in JsonValues}]
    /\ ret = [field |-> Nil, entry |-> Nil, preset |-> Nil]
    /\ o = NoOptions /\ src = Nil
    /\ mm = Nil /\ mMeta = Nil /\ mData = Nil /\ meta = Nil
    /\ sortedKeys = <<>> /\ ptData = <<>> /\ log = <<>>
    /\ pools = NoPools /\ buf = NoBuf /\ other = Nil

\* setFieldValue(field, value) for a field of type T holding its zero value
CoerceField ==
    /\ pc = "coerce"
    /\ ret' = [ret EXCEPT !.field = setFieldValue(args.T, Zero(args.T), args.value)]
    /\ pc' = "field"
    /\ UNCHANGED <<args, o, src, locals, pools, buf, other>>

\* setFieldValue(field, map[string]any{"p": value}) for a nil field of type
\* map[string]T: it hands the map to setMapValue
CoerceMapValue ==
    /\ pc = "field"
    /\ ret' = [ret EXCEPT !.entry = setFieldValue(TMap(TString, args.T), Nil,
                                        VMap([k \in {"p"} |-> args.value]))]
    /\ pc' = "coerced"
    /\ UNCHANGED <<args, o, src, locals, pools, buf, other>>

\* setFieldValue(field, value) for a field of type T that holds a value
\* already: a slice of one element when T is a slice type
CoercePreset ==
    /\ pc = "coerced"
    /\ ret' = [ret EXCEPT !.preset =
                    setFieldValue(args.T,
                                  IF Kind(args.T) = "slice" THEN VSlice(<<Zero(args.T[2])>>)
                                  ELSE Zero(args.T),
                                  args.value)]
    /\ pc' = "preset"
    /\ UNCHANGED <<args, o, src, locals, pools, buf, other>>

CoerceNext == CoerceField \/ CoerceMapValue \/ CoercePreset

EngineSpec == CoerceInit /\ [][CoerceNext]_vars
(***************************************************************************)
(* The properties of the decoders and encoders.                            *)
(***************************************************************************)
Decoders == {"Unmarshal", "UnmarshalWithName", "UnmarshalStructuredData"}

\* a decode has returned; it has returned records
Returned  == pc = "done" /\ args.fn \in Decoders
Succeeded == Returned /\ ret.err = NoErr

NamesOf(recs) == [i \in 1..Len(recs) |-> GetName(recs[i])]
KeysOf(m)     == IF m = Nil THEN {} ELSE DOMAIN m[2]

\* the entry is an object with a string under "capital", and r carries it
CarriesCapital(r, e) ==
    (e[1] = "map" /\ "capital" \in DOMAIN e[2] /\ e[2]["capital"][1] = "string")
        => r[2]["Capital"] = e[2]["capital"]

\* C1: a successful decode returns exactly one record per key of the data
\* map; every record's GetName() is the key of the entry it was decoded from
\* (it carries that entry's capital), on the primary path and on the
\* fallback path, and whatever the entry itself holds under "Name".
C1_RecordPerKey ==
    Succeeded =>
        /\ Len(ret.data[2]) = Cardinality(KeysOf(mData))
        /\ {GetName(ret.data[2][i]) : i \in 1..Len(ret.data[2])} = KeysOf(mData)
        /\ \A i \in 1..Len(ret.data[2]) :
                CarriesCapital(ret.data[2][i], mData[2][GetName(ret.data[2][i])])

\* two records are returned, one decoded by the fallback and one from an
\* entry whose "Name" is not its key
C1_Witness ==
    /\ Succeeded /\ Len(ret.data[2]) = 2
    /\ \E i \in 1..Len(log) : log[i].fallback = "ok"
    /\ \E k \in KeysOf(mData) :
            /\ "Name" \in DOMAIN mData[2][k][2]
            /\ mData[2][k][2]["Name"] # VString(k)

\* the ordering the caller's options ask for: the last valid WithOrdering
RECURSIVE RequestedOrdering(_, _)
RequestedOrdering(opts, cur) ==
    IF opts = <<>> THEN cur
    ELSE RequestedOrdering(Tail(opts),
            IF Head(opts)[1] = "WithOrdering" /\ Head(opts)[2] \in {Ascending, Descending}
            THEN Head(opts)[2] ELSE cur)

\* C2: the names of the records returned are the keys of the data map, in
\* strictly ascending byte order unless the options ask for Descending, and
\* then in strictly descending order.
C2_Ordered ==
    Succeeded =>
        /\ {GetName(ret.data[2][i]) : i \in 1..Len(ret.data[2])} = KeysOf(mData)
        /\ \A i, j \in 1..Len(ret.data[2]) :
                i < j => IF RequestedOrdering(args.opts, Ascending) = Descending
                         THEN StrLess(GetName(ret.data[2][j]), GetName(ret.data[2][i]))
                         ELSE StrLess(GetName(ret.data[2][i]), GetName(ret.data[2][j]))

\* a Descending decode of two entries, returned as "a" before "B"
C2_Witness ==
    /\ Succeeded /\ RequestedOrdering(args.opts, Ascending) = Descending
    /\ NamesOf(ret.data[2]) = <<"a", "B">>

DistinctNames(recs) ==
    \A i, j \in 1..Len(recs) : i # j => GetName(recs[i]) # GetName(recs[j])

\* the records ordered by name ascending
SortedByName(recs) ==
    LET ks == SortStrings({GetName(recs[i]) : i \in 1..Len(recs)})
    IN  [i \in 1..Len(ks) |-> recs[CHOOSE j \in 1..Len(recs) : GetName(recs[j]) = ks[i]]]

\* C3: decoding what Marshal or MarshalWithName returned for records of
\* distinct names returns those records, ordered by name ascending.
C3_RoundTrip ==
    (pc \in {"done", "panic"} /\ args.fn \in Decoders /\ src # Nil /\ DistinctNames(src[2]))
        => /\ pc = "done"
           /\ ret.err = NoErr
           /\ ret.data = VSlice(SortedByName(src[2]))

\* C4: no decode panics, whatever the document.
C4_NoDecodePanic == ~(pc = "panic" /\ args.fn \in Decoders)

(***************************************************************************)
(* The document of the call, as the caller wrote it.                       *)
(***************************************************************************)
RootKeys(b) == IF b[1] = "obj" THEN MemberKeys(b[2]) ELSE {}

\* the value of the last member of the object b under k
MemberOf(b, k) ==
    b[2][CHOOSE i \in 1..Len(b[2]) :
            b[2][i][1] = k /\ \A j \in (i + 1)..Len(b[2]) : b[2][j][1] # k][2]

\* the root is an object whose values are objects or null
MapOfMaps(b) ==
    b[1] = "obj" /\ \A i \in 1..Len(b[2]) : b[2][i][2][1] \in {"obj", "null"}

Named      == args.fn = "UnmarshalWithName" /\ args.dataName # ""
Structured == args.fn = "UnmarshalStructuredData"

CodecErrors == {ErrSyntax, ErrUnmarshalType}

\* C5 as claimed: a declared name that the outer map lacks gives its own
\* NameNotFound error, whether or not the outer map has the other name.
C5_EachNameIndependently ==
    (pc = "done" /\ args.b[1] = "obj") =>
        /\ ((Named \/ Structured) /\ args.dataName \notin RootKeys(args.b))
                => ret.err = ErrDataNameNotFound
        /\ (Structured /\ args.metaName \notin RootKeys(args.b))
                => ret.err = ErrMetaNameNotFound

\* C5, amended: for a document that is a map of maps, a Named decode whose
\* data name is absent returns ErrDataNameNotFound; a Structured decode
\* whose metadata name is absent returns ErrMetaNameNotFound, whether or not
\* the data name is present, and one whose metadata name is present and
\* whose data name is absent returns ErrDataNameNotFound.
C5_NameNotFound ==
    (pc = "done" /\ MapOfMaps(args.b)) =>
        /\ (Named /\ args.dataName \notin RootKeys(args.b))
                => ret.err = ErrDataNameNotFound /\ ret.data = Nil
        /\ (Structured /\ args.metaName \notin RootKeys(args.b))
                => ret.err = ErrMetaNameNotFound /\ ret.data = Nil
        /\ (Structured /\ args.metaName \in RootKeys(args.b)
                       /\ args.dataName \notin RootKeys(args.b))
                => ret.err = ErrDataNameNotFound /\ ret.data = Nil

\* a Structured decode of a map of maps that has neither name
C5_Witness ==
    /\ pc = "done" /\ Structured /\ RootKeys(args.b) = {"x"} /\ MapOfMaps(args.b)
    /\ ret.err = ErrMetaNameNotFound

\* C6: a decode that returns an error returns no records and no metadata,
\* however many entries it had decoded; one that returns no error returns a
\* record for every key of the data map.
C6_NoPartialResult ==
    Returned =>
        IF ret.err # NoErr
        THEN ret.data = Nil /\ ret.meta = Nil
        ELSE ret.data[1] = "slice" /\ Len(ret.data[2]) = Cardinality(KeysOf(mData))

\* the second entry failed both paths after the first was decoded
C6_Witness ==
    /\ Returned /\ ret.err # NoErr /\ ret.data = Nil
    /\ Len(ptData) = 1 /\ Len(log) = 2 /\ log[2].fallback = "fail"

\* the document has the outer shape the call declares
ShapeOK ==
    IF args.fn = "Unmarshal" THEN args.b[1] = "obj"
    ELSE args.b[1] = "obj" /\ \A i \in 1..Len(args.b[2]) : args.b[2][i][2][1] = "obj"

\* C7: a document that has not the declared outer shape is rejected with
\* the codec's error and no records, never with a NameNotFound error and
\* never with success.
C7_MalformedEnvelope ==
    (pc \in {"done", "panic"} /\ (args.fn = "Unmarshal" \/ Named \/ Structured) /\ ~ShapeOK)
        => pc = "done" /\ ret.err \in CodecErrors /\ ret.data = Nil

\* the outer map has the declared names and further keys
HasExtras ==
    \/ Named /\ args.dataName \in RootKeys(args.b) /\ RootKeys(args.b) # {args.dataName}
    \/ /\ Structured
       /\ {args.metaName, args.dataName} \subseteq RootKeys(args.b)
       /\ RootKeys(args.b) # {args.metaName, args.dataName}

\* C8 as claimed: an outer map with keys beyond the declared names is
\* rejected with the codec's error.
C8_OuterArityRejected ==
    (pc \in {"done", "panic"} /\ HasExtras)
        => pc = "done" /\ ret.err \in CodecErrors /\ ret.data = Nil

\* C8, amended: an outer map with keys beyond the declared names is rejected
\* (with the codec's error, before any entry is handled) exactly when one of
\* its values is neither an object nor null; otherwise the further keys are
\* ignored: the data map is the object under the data name, and a successful
\* decode returns the records of its keys.
C8_ExtrasIgnored ==
    (pc = "done" /\ HasExtras) =>
        IF MapOfMaps(args.b)
        THEN /\ mData = ToAny(MemberOf(args.b, args.dataName))
             /\ (ret.err \in CodecErrors => log # <<>>)
             /\ (ret.err = NoErr =>
                    {GetName(ret.data[2][i]) : i \in 1..Len(ret.data[2])}
                        = RootKeys(MemberOf(args.b, args.dataName)))
        ELSE ret.err = ErrUnmarshalType /\ ret.data = Nil /\ log = <<>>

\* a Named decode of an outer map with a further key returns two records
C8_Witness ==
    /\ pc = "done" /\ Named /\ HasExtras /\ MapOfMaps(args.b)
    /\ ret.err = NoErr /\ Len(ret.data[2]) = 2

\* C9: UnmarshalWithName and MarshalWithName with an empty name return
\* ErrNoNameSpecified and nothing else, whatever the bytes and the options,
\* having built no Options, filled no map and handled no entry.
C9_NoNameSpecified ==
    (args.fn \in {"UnmarshalWithName", "MarshalWithName"} /\ args.dataName = "") =>
        /\ pc = "done"
        /\ ret = [NoRet EXCEPT !.err = ErrNoNameSpecified]
        /\ o = NoOptions
        /\ mm = Nil /\ mMeta = Nil /\ mData = Nil /\ meta = Nil
        /\ sortedKeys = <<>> /\ ptData = <<>> /\ log = <<>>

\* UnmarshalWithName with an empty name, bytes that are no JSON and a
\* caller's factory among the options
C9_Witness ==
    /\ pc = "done" /\ args.fn = "UnmarshalWithName" /\ args.dataName = ""
    /\ args.b = JBad /\ args.opts = <<WithNewFn(callerFn)>>
    /\ ret.err = ErrNoNameSpecified

\* the entry has no member that encoding/json stores in field f
NoMemberFor(e, f) ==
    \/ JsonSkipped(FieldOf(RecordType, f))
    \/ \A k \in DOMAIN e[2] : ~EqualFold(k, JsonName(FieldOf(RecordType, f)))

\* the fields of r that the entry does not name are as o.NewFn() made them
FreshFields(r, e) ==
    \A f \in FieldNames(RecordType) \ {"Name"} :
        NoMemberFor(e, f) => r[2][f] = NewInstance(o.NewFn)[2][f]

\* what the loop logged for its i-th entry agrees with C10
FallbackRule(i, e) ==
    /\ (log[i].fallback # "none") <=> (log[i].primary = "fail")
    /\ log[i].news = IF log[i].primary = "fail" THEN 2 ELSE 1
    /\ (log[i].primary = "fail")
            <=> (e[1] = "map" /\ mapToStruct(e[2], RecordType, NewInstance(o.NewFn)).err # NoErr)
    /\ (log[i].fallback = "ok" /\ i <= Len(ptData)) => FreshFields(ptData[i], e)
    /\ (log[i].fallback = "fail" /\ pc = "done")
            => /\ ret.err = roundTripToStruct(e, RecordType, NewInstance(o.NewFn)).err
               /\ ret.err[1] # "error setting field"

\* C10: for every entry the fallback is attempted exactly when mapToStruct
\* failed, once, into a second o.NewFn(): the fields of the record that the
\* entry does not name are as o.NewFn() made them; when the fallback fails
\* too, the error returned is roundTripToStruct's and not mapToStruct's.
C10_Fallback ==
    \A i \in 1..Len(log) : FallbackRule(i, mData[2][log[i].name])

\* a record decoded by the fallback from an entry whose "" member the
\* failed mapToStruct had stored in Note
C10_Witness ==
    /\ Succeeded
    /\ \E i \in 1..Len(log) :
            /\ log[i].fallback = "ok"
            /\ "" \in DOMAIN mData[2][log[i].name][2]
            /\ mapToStruct(mData[2][log[i].name][2], RecordType,
                           NewInstance(o.NewFn)).val[2]["Note"] = VString("n")
            /\ ptData[i][2]["Note"] = VString("")

\* C11: a decode returns metadata only when it is UnmarshalStructuredData,
\* the outer map has the metadata name and the call succeeds; the metadata
\* is what mapToStruct alone makes of new(M) (its Name is set only from a
\* "Name" member), decoded before any entry is handled; when mapToStruct
\* fails on the metadata the call returns that error, no records and no
\* metadata, and has handled no entry.
C11_Metadata ==
    /\ pc \in {"resolve", "meta"} => ptData = <<>> /\ log = <<>> /\ meta = Nil
    /\ Returned =>
        /\ ret.meta # Nil =>
                /\ Structured /\ args.metaName \in RootKeys(args.b) /\ ret.err = NoErr
                /\ ret.meta = VPtr(mapToStruct(mMeta[2], MetaType, Zero(TStruct(MetaType))).val)
                /\ "Name" \notin DOMAIN mMeta[2] => ret.meta[2][2]["Name"] = VString("")
        /\ (Structured /\ mMeta # Nil
                /\ mapToStruct(mMeta[2], MetaType, Zero(TStruct(MetaType))).err # NoErr) =>
                /\ ret.err = mapToStruct(mMeta[2], MetaType, Zero(TStruct(MetaType))).err
                /\ ret.err[1] = "error setting field"
                /\ ret.data = Nil /\ ret.meta = Nil /\ log = <<>>
        /\ (Succeeded /\ Structured /\ mMeta # Nil) => ret.meta # Nil

\* UnmarshalStructuredData fails on metadata that json.Unmarshal would
\* decode (a number for a *int), with a data map of two good entries
C11_Witness ==
    /\ Returned /\ Structured /\ mMeta # Nil /\ "count" \in DOMAIN mMeta[2]
    /\ roundTripToStruct(mMeta, MetaType, Zero(TStruct(MetaType))).err = NoErr
    /\ ret.err = ErrField("Count", ErrConvert)
    /\ Cardinality(KeysOf(mData)) = 2 /\ log = <<>>

\* an encode has returned bytes
Encoded ==
    /\ pc = "done" /\ args.fn \in {"Marshal", "MarshalWithName"}
    /\ ret.err = NoErr /\ ret.bytes # Nil

\* the last record of data that reports the name k
LastNamed(data, k) ==
    data[CHOOSE i \in 1..Len(data) :
            GetName(data[i]) = k /\ \A j \in (i + 1)..Len(data) : GetName(data[j]) # k]

\* the object j has one member per name of data, and the member under a
\* name is the encoding of the last record reporting it
EncodesLastOfEachName(j, data) ==
    /\ j[1] = "obj"
    /\ Len(j[2]) = Cardinality({GetName(data[i]) : i \in 1..Len(data)})
    /\ MemberKeys(j[2]) = {GetName(data[i]) : i \in 1..Len(data)}
    /\ \A i \in 1..Len(j[2]) :
            /\ j[2][i][2] = MarshalTyped(LastNamed(data, j[2][i][1]), TStruct(RecordType))
            /\ MemberOf(j[2][i][2], "capital") = JStr(LastNamed(data, j[2][i][1])[2]["Capital"][2])

\* C12: Marshal returns, without error, an object with exactly one member
\* per distinct name of the records, holding the last record of that name;
\* MarshalWithName returns an object whose only member is that object under
\* the declared name.
C12_LastWriteWins ==
    Encoded =>
        IF args.fn = "Marshal" THEN EncodesLastOfEachName(ret.bytes, args.data)
        ELSE /\ ret.bytes[1] = "obj" /\ Len(ret.bytes[2]) = 1
             /\ ret.bytes[2][1][1] = args.dataName
             /\ EncodesLastOfEachName(ret.bytes[2][1][2], args.data)

\* MarshalWithName of two different records that report the same name
C12_Witness ==
    /\ Encoded /\ args.fn = "MarshalWithName" /\ Len(args.data) = 2
    /\ GetName(args.data[1]) = GetName(args.data[2]) /\ args.data[1] # args.data[2]
    /\ Len(ret.bytes[2][1][2][2]) = 1

\* the shape the entry point called declares
DeclaredShape ==
    CASE args.fn \in {"Unmarshal", "Marshal"} -> anonymousItemMap
      [] args.fn \in {"UnmarshalWithName", "MarshalWithName"} -> namedItemMap
      [] args.fn = "UnmarshalStructuredData" -> structuredMap

\* a call has built its Options
Built == pc # "idle" /\ o # NoOptions

\* C13 as claimed: the Options every call builds hold the last valid
\* ordering its options supply, Ascending when none is valid.
C13_OrderingAlwaysValid ==
    Built => /\ o.Ordering \in {Ascending, Descending}
             /\ o.Ordering = RequestedOrdering(args.opts, Ascending)

\* C13, amended: the Options a decode builds hold the last valid ordering
\* its options supply, Ascending when none is valid; those an encode builds
\* hold the last valid ordering supplied and UnknownOrdering when none is;
\* the shape is the one the entry point declares whatever the options, and
\* neither Marshal nor MarshalWithName panics.
C13_Options ==
    /\ Built =>
        /\ o.structType = DeclaredShape
        /\ IF args.fn \in Decoders
           THEN /\ o.Ordering \in {Ascending, Descending}
                /\ o.Ordering = RequestedOrdering(args.opts, Ascending)
           ELSE o.Ordering = RequestedOrdering(args.opts, UnknownOrdering)
    /\ ~(pc = "panic" /\ args.fn \in {"Marshal", "MarshalWithName"})

\* a decode given Descending and then two invalid orderings keeps Descending
C13_Witness ==
    /\ Built /\ args.fn \in Decoders /\ Len(args.opts) = 3
    /\ args.opts[2] = WithOrdering(InvalidOrdering) /\ args.opts[3] = WithOrdering(-1)
    /\ o.Ordering = Descending /\ pc = "done" /\ ret.err = NoErr

\* the document's data map, as written, is the empty object
EmptyDataMap ==
    IF args.fn = "Unmarshal" THEN args.b = JObj(<<>>)
    ELSE /\ MapOfMaps(args.b) /\ (Named \/ Structured)
         /\ args.dataName \in RootKeys(args.b)
         /\ MemberOf(args.b, args.dataName) = JObj(<<>>)

\* C17: an empty data map (the empty root object for Unmarshal, an empty
\* object under the name in a map of maps for UnmarshalWithName and
\* UnmarshalStructuredData) decodes to a zero-length, non-nil sequence and no
\* error; for UnmarshalStructuredData the metadata object is decoded all the
\* same: it is returned, or its error is.
C17_EmptyDataMap ==
    (Returned /\ EmptyDataMap) =>
        IF Structured /\ args.metaName \notin RootKeys(args.b)
        THEN ret.err = ErrMetaNameNotFound
        ELSE IF Structured /\ mMeta # Nil
                /\ mapToStruct(mMeta[2], MetaType, Zero(TStruct(MetaType))).err # NoErr
        THEN ret.err[1] = "error setting field" /\ ret.data = Nil
        ELSE /\ ret.err = NoErr /\ ret.data = VSlice(<<>>)
             /\ Structured =>
                    ret.meta = IF MemberOf(args.b, args.metaName) = JNull THEN Nil
                               ELSE VPtr(mapToStruct(mMeta[2], MetaType,
                                                     Zero(TStruct(MetaType))).val)

\* UnmarshalStructuredData of an empty data map returns the metadata and
\* no records
C17_Witness ==
    /\ Returned /\ EmptyDataMap /\ Structured
    /\ ret.err = NoErr /\ ret.data = VSlice(<<>>)
    /\ ret.meta # Nil /\ ret.meta[2][2]["Version"] = VInt(1)

\* C18: encoding the records decoded from a document that Marshal or
\* MarshalWithName returned gives that document again.
C18_ReencodeSame ==
    (pc \in {"done", "panic"} /\ src # Nil /\ src[1] = "document")
        => pc = "done" /\ ret.err = NoErr /\ ret.bytes = src[2]

\* the value is a number with a fractional part
IsFraction(v) == v[1] = "float64" /\ v[3] # 0

\* the map m offers a fractional number to an int field of the struct n, or
\* to a value of a field of n that is a map of int
FractionForInt(m, n) ==
    \E i \in 1..Len(StructFields(n)) :
        /\ Assigned(m, FieldAt(n, i))
        /\ \/ FieldAt(n, i).type = TInt /\ IsFraction(m[JsonTag(FieldAt(n, i))])
           \/ /\ Kind(FieldAt(n, i).type) = "map" /\ FieldAt(n, i).type[3] = TInt
              /\ m[JsonTag(FieldAt(n, i))][1] = "map"
              /\ \E k \in DOMAIN m[JsonTag(FieldAt(n, i))][2] :
                    IsFraction(m[JsonTag(FieldAt(n, i))][2][k])

\* C19: a decode whose metadata or whose handled entries offer a number
\* with a fractional part to an int field, or to a value of a map of int,
\* returns an error: the number is never silently truncated.
C19_ExactOrError ==
    (/\ Returned
     /\ \/ Structured /\ mMeta # Nil /\ FractionForInt(mMeta[2], MetaType)
        \/ \E i \in 1..Len(log) :
                FractionForInt(mData[2][log[i].name][2], RecordType))
        => ret.err # NoErr
\* C20: a value is coerced as the value of a map entry exactly when it is
\* coerced as a standalone field of the same type, and to the same value.
C20_SameAsField ==
    pc = "coerced" =>
        /\ ret.entry.err = NoErr <=> ret.field.err = NoErr
        /\ ret.field.err = NoErr => ret.entry.val[2]["p"] = ret.field.val
\* the call acquired a buffer and has returned or panicked
Ended == pc \in {"done", "panic"} /\ buf.acq # Nil

\* C14: a call that acquired a buffer has, when it returns or panics,
\* released that buffer exactly once, and the buffer went into its pool
\* cleared.
C14_ReleasedOnce ==
    /\ Ended => buf.puts = 1
    /\ \A kind \in {"m", "mm"} : \A e \in pools[kind] : e[2] = EmptyMap
\* the names of the records a decode returned are the keys of the data
\* object of its own document
OwnKeysOnly ==
    {GetName(ret.data[2][i]) : i \in 1..Len(ret.data[2])} =
        RootKeys(IF args.fn = "Unmarshal" THEN args.b ELSE MemberOf(args.b, args.dataName))

C16_OwnArgumentsOnly ==
    /\ (pc \in {"meta", "sort", "loop", "done", "panic"} /\ args.fn \in Decoders
            /\ buf.acq # Nil) =>
            IF args.fn = "Unmarshal" THEN mData = UnmarshalMap(args.b, EmptyMap).m
            ELSE mm = UnmarshalMap2Map(args.b, EmptyMap).m
    /\ (Succeeded /\ buf.acq # Nil) => OwnKeysOnly
    /\ (Encoded /\ args.fn = "MarshalWithName") =>
            ret.bytes = marshal(args.dataName, args.data, <<>>, EmptyMap).bytes

\* a decode returned records out of a buffer that came from the pool and
\* had held the entries of an earlier call
C16_Witness ==
    Succeeded /\ buf.reused /\ Len(ret.data[2]) > 0
\* setFieldValue hands the value to setSliceValue: the destination is a
\* slice type other than []interface{} and the value a decoded array
ToSlice == Kind(args.T) = "slice" /\ args.T # TSlice(TAny) /\ args.value[1] = "slice"

\* the coercion of the i-th element of the value into a new element
ElemCoerced(i) == setFieldValue(args.T[2], Zero(args.T[2]), args.value[2][i])

\* C21: a decoded array set into a slice field gives a slice of the same
\* length whose i-th element is the coercion of the i-th element of the
\* array; when an element fails, the error names the index of the first
\* element that fails and the field keeps the value it held.
C21_SliceAllOrNothing ==
    (pc = "preset" /\ ToSlice) =>
        IF \A i \in 1..Len(args.value[2]) : ElemCoerced(i).err = NoErr
        THEN /\ ret.preset.err = NoErr
             /\ Len(ret.preset.val[2]) = Len(args.value[2])
             /\ \A i \in 1..Len(args.value[2]) : ret.preset.val[2][i] = ElemCoerced(i).val
             /\ ret.field = ret.preset
        ELSE \E k \in 1..Len(args.value[2]) :
                /\ \A j \in 1..(k - 1) : ElemCoerced(j).err = NoErr
                /\ ret.preset.err = ErrIndex(k - 1, ElemCoerced(k).err)
                /\ ret.preset.val = VSlice(<<Zero(args.T[2])>>)
                /\ ret.field.err = ret.preset.err /\ ret.field.val = Nil

\* an array of two elements whose second fails into a []int that held one
\* element
C21_Witness ==
    /\ pc = "preset" /\ args.T = TSlice(TInt) /\ args.value[1] = "slice"
    /\ Len(args.value[2]) = 2
    /\ ret.preset.err = ErrIndex(1, ErrConvert)
    /\ ret.preset.val = VSlice(<<VInt(0)>>)
\* the fields of the record type other than Name, which SetName sets
FrameFields == {i \in 1..Len(StructFields(RecordType)) : FieldAt(RecordType, i).Name # "Name"}

\* the entry i of the log was decoded by mapToStruct alone
ByFields(i) == i <= Len(ptData) /\ log[i].primary = "ok"

\* C22: in a record that mapToStruct alone decoded, every field whose name
\* (the name of its tag if it has one, else its own name) is no key of the
\* entry, or whose tag is "-", holds what o.NewFn() gave it; and an entry
\* none of whose keys names a field that can be set decodes to what
\* o.NewFn() gave, with its name set.
C22_OnlyNamedFields ==
    \A i \in 1..Len(log) :
        /\ ByFields(i) =>
                \A f \in FrameFields :
                    (\/ JsonName(FieldAt(RecordType, f)) \notin DOMAIN mData[2][log[i].name][2]
                     \/ FieldAt(RecordType, f).tag = <<"-">>)
                        => ptData[i][2][FieldAt(RecordType, f).Name]
                                = NewInstance(o.NewFn)[2][FieldAt(RecordType, f).Name]
        /\ (/\ i <= Len(ptData) \/ pc = "done"
            /\ mData[2][log[i].name][1] = "map"
            /\ \A j \in 1..Len(StructFields(RecordType)) :
                    \/ JsonName(FieldAt(RecordType, j)) \notin DOMAIN mData[2][log[i].name][2]
                    \/ JsonSkipped(FieldAt(RecordType, j)))
                => /\ ByFields(i)
                   /\ ptData[i] = SetName(NewInstance(o.NewFn), log[i].name)
====
